---------------------------- MODULE Spec2Model ----------------------------
(***************************************************************************)
(* Model of subscript/sunsch.py: process_sch_config, which assembles an    *)
(* Eclipse Schedule timeline from an init file, merged files and inserted  *)
(* snippets, and dategrid, which produces the periodic DATES grid.         *)
(*                                                                         *)
(* A calendar date (datetime.date) is its proleptic Gregorian ordinal, as  *)
(* date.toordinal() gives it.  A datetime is a record [ord, sec]: the day  *)
(* and the seconds since midnight.  A text is a sequence of one-character  *)
(* strings.                                                                *)
(***************************************************************************)
EXTENDS Integers, Sequences, FiniteSets, TLC

(***************************************************************************)
(* Calendar arithmetic of datetime.date, as the fields read by dategrid    *)
(* (date.day, date.month, date.weekday(), date.isocalendar()[1]) compute   *)
(* it.                                                                     *)
(***************************************************************************)
IsLeap(y) == (y % 4 = 0) /\ ((y % 100 # 0) \/ (y % 400 = 0))

DaysBeforeYear(y) ==
    LET p == y - 1 IN p * 365 + (p \div 4) - (p \div 100) + (p \div 400)

DaysInMonth(y, m) ==
    IF m = 2 THEN (IF IsLeap(y) THEN 29 ELSE 28)
    ELSE IF m \in {4, 6, 9, 11} THEN 30 ELSE 31

RECURSIVE DaysBeforeMonth(_, _)
DaysBeforeMonth(y, m) ==
    IF m = 1 THEN 0 ELSE DaysBeforeMonth(y, m - 1) + DaysInMonth(y, m - 1)

\* datetime.date(y, m, d).toordinal()
Ymd2Ord(y, m, d) == DaysBeforeYear(y) + DaysBeforeMonth(y, m) + d

\* The (year, month, day) of an ordinal: the 400/100/4/1-year cycle
\* decomposition, then the month estimated as (n + 50) >> 5 and corrected.
Ord2Ymd(ordinal) ==
    LET n0   == ordinal - 1
        n400 == n0 \div 146097
        r400 == n0 % 146097
        n100 == r400 \div 36524
        r100 == r400 % 36524
        n4   == r100 \div 1461
        r4   == r100 % 1461
        n1   == r4 \div 365
        n    == r4 % 365
        year == n400 * 400 + 1 + n100 * 100 + n4 * 4 + n1
    IN  IF n1 = 4 \/ n100 = 4
        THEN [year |-> year - 1, month |-> 12, day |-> 31]
        ELSE LET guess  == (n + 50) \div 32
                 before == DaysBeforeMonth(year, guess)
                 month  == IF before > n THEN guess - 1 ELSE guess
             IN  [year  |-> year,
                  month |-> month,
                  day   |-> n - DaysBeforeMonth(year, month) + 1]

DayOf(d) == Ord2Ymd(d).day

MonthOf(d) == Ord2Ymd(d).month

YearOf(d) == Ord2Ymd(d).year

\* date.weekday(): Monday is 0
Weekday(d) == (d + 6) % 7

\* The ordinal of the Monday that starts ISO week 1 of a year
IsoWeek1Monday(y) ==
    LET firstday     == Ymd2Ord(y, 1, 1)
        firstweekday == (firstday + 6) % 7
        monday       == firstday - firstweekday
    IN  IF firstweekday > 3 THEN monday + 7 ELSE monday

\* date.isocalendar()[1]
IsoWeek(d) ==
    LET y  == YearOf(d)
        w1 == IsoWeek1Monday(y)
    IN  IF d < w1
        THEN ((d - IsoWeek1Monday(y - 1)) \div 7) + 1
        ELSE IF (d - w1) \div 7 >= 52 /\ d >= IsoWeek1Monday(y + 1)
             THEN 1
             ELSE ((d - w1) \div 7) + 1

(***************************************************************************)
(* dategrid(startdate, enddate, interval)                                  *)
(***************************************************************************)
supportedintervals == {"monthly", "yearly", "weekly", "biweekly", "bimonthly"}

\* GridMatch with the bimonthly test taking the even months
GridMatchEvenMonths(interval, date, startdateweekday) ==
    CASE interval = "monthly"   -> DayOf(date) = 1
      [] interval = "bimonthly" -> DayOf(date) = 1 /\ MonthOf(date) % 2 = 0
      [] interval = "weekly"    -> Weekday(date) = startdateweekday
      [] interval = "biweekly"  -> Weekday(date) = startdateweekday
                                   /\ IsoWeek(date) % 2 = 1
      [] interval = "yearly"    -> DayOf(date) = 1 /\ MonthOf(date) = 1
      [] interval = "daily"     -> TRUE
      [] OTHER                  -> FALSE

\* The test the loop body applies to one day
GridMatch(interval, date, startdateweekday) ==
    CASE interval = "monthly"   -> DayOf(date) = 1
      [] interval = "bimonthly" -> DayOf(date) = 1 /\ MonthOf(date) % 2 = 1
      [] interval = "weekly"    -> Weekday(date) = startdateweekday
      [] interval = "biweekly"  -> Weekday(date) = startdateweekday
                                   /\ IsoWeek(date) % 2 = 1
      [] interval = "yearly"    -> DayOf(date) = 1 /\ MonthOf(date) = 1
      [] interval = "daily"     -> TRUE
      [] OTHER                  -> FALSE

\* GridCond running one day past enddate
GridCondPastEnd(date, enddate) == date <= enddate + 1

\* The loop condition: while date <= enddate
GridCond(date, enddate) == date <= enddate

\* The while loop, run to its end
RECURSIVE GridLoop(_, _, _, _, _)
GridLoop(date, enddate, interval, startdateweekday, dates) ==
    IF GridCond(date, enddate)
    THEN GridLoop(date + 1, enddate, interval, startdateweekday,
                  IF GridMatch(interval, date, startdateweekday)
                  THEN Append(dates, date) ELSE dates)
    ELSE dates

\* The result of a call: raised (an unsupported interval), or the dates
dategrid(startdate, enddate, interval) ==
    IF interval \notin supportedintervals
    THEN [raised |-> TRUE, dates |-> <<>>]
    ELSE [raised |-> FALSE,
          dates  |-> GridLoop(startdate + 1, enddate, interval,
                              Weekday(startdate), <<startdate>>)]

(***************************************************************************)
(* Texts and the substitution of <key> tokens                              *)
(***************************************************************************)
IsPrefix(pat, s) ==
    /\ Len(pat) <= Len(s)
    /\ \A i \in 1 .. Len(pat) : s[i] = pat[i]

\* pat in s
RECURSIVE Contains(_, _)
Contains(s, pat) ==
    IF Len(s) < Len(pat) THEN FALSE
    ELSE IsPrefix(pat, s) \/ Contains(Tail(s), pat)

\* s.replace(pat, rep): leftmost occurrences, not overlapping
RECURSIVE StrReplace(_, _, _)
StrReplace(s, pat, rep) ==
    IF Len(s) < Len(pat) THEN s
    ELSE IF IsPrefix(pat, s)
         THEN rep \o StrReplace(SubSeq(s, Len(pat) + 1, Len(s)), pat, rep)
         ELSE <<Head(s)>> \o StrReplace(Tail(s), pat, rep)

Digit(n) == <<"0", "1", "2", "3", "4", "5", "6", "7", "8", "9">>[n + 1]

\* str(n) of a natural number
RECURSIVE StrOfNat(_)
StrOfNat(n) ==
    IF n < 10 THEN <<Digit(n)>> ELSE StrOfNat(n \div 10) \o <<Digit(n % 10)>>

\* str(value): a mapping value is a text or a number
StrOf(value) == IF value.isInt THEN StrOfNat(value.n) ELSE value.s

\* "<" + key + ">"
Token(key) == <<"<">> \o key \o <<">">>

\* for key in substdict: if "<key>" in line: line = line.replace(...)
\* (substdict is the sequence of its items in iteration order)
RECURSIVE SubstLine(_, _)
SubstLine(line, substdict) ==
    IF substdict = <<>> THEN line
    ELSE LET key  == Head(substdict).key
             line1 == IF Contains(line, Token(key))
                      THEN StrReplace(line, Token(key), StrOf(Head(substdict).value))
                      ELSE line
         IN  SubstLine(line1, Tail(substdict))

\* for line in templatelines: ...; resultfile.write(line)
SubstLines(lines, substdict) ==
    [i \in 1 .. Len(lines) |-> SubstLine(lines[i], substdict)]

(***************************************************************************)
(* Datetimes                                                               *)
(***************************************************************************)
\* datetime.datetime.combine(date, datetime.datetime.min.time())
datetime_from_date(date) == [ord |-> date, sec |-> 0]

\* datetime.date(), also the date part combine() takes of a datetime
DatePart(dt) == dt.ord

\* datetime + datetime.timedelta(days=n)
AddDays(dt, n) == [ord |-> dt.ord + n, sec |-> dt.sec]

DtLess(a, b) == a.ord < b.ord \/ (a.ord = b.ord /\ a.sec < b.sec)

(***************************************************************************)
(* The timeline document (sunbeam's TimeVector): a sequence of blocks      *)
(* [date, kws], one per date, ascending by date.                           *)
(***************************************************************************)
\* TimeVector(start_date): one empty block at the start date
TimeVector(startdate) == <<[date |-> datetime_from_date(startdate), kws |-> <<>>]>>

\* schedule.dates
Dates(sched) == [i \in 1 .. Len(sched) |-> sched[i].date]

HasDate(sched, dt) == \E i \in 1 .. Len(sched) : sched[i].date = dt

\* schedule.add_keywords(dt, kws): into the block at dt, made if absent
AddKeywords(sched, dt, kws) ==
    IF HasDate(sched, dt)
    THEN [i \in 1 .. Len(sched) |->
             IF sched[i].date = dt
             THEN [sched[i] EXCEPT !.kws = @ \o kws]
             ELSE sched[i]]
    ELSE LET k == Cardinality({i \in 1 .. Len(sched) : DtLess(sched[i].date, dt)})
         IN  SubSeq(sched, 1, k) \o <<[date |-> dt, kws |-> kws]>>
             \o SubSeq(sched, k + 1, Len(sched))

\* schedule.delete(dt)
Delete(sched, dt) == SelectSeq(sched, LAMBDA b : b.date # dt)

\* schedule.load(file, date): the items of a file are DATES keywords and text
\* lines; a line goes to the block of the last DATES before it, or of the
\* date argument.  A line before any date is a ValueError.
RECURSIVE LoadItems(_, _, _, _)
LoadItems(items, hasCur, cur, sched) ==
    IF items = <<>> THEN [ok |-> TRUE, sched |-> sched]
    ELSE LET it == Head(items) IN
         IF it.dates
         THEN LoadItems(Tail(items), TRUE, datetime_from_date(it.date),
                        AddKeywords(sched, datetime_from_date(it.date), <<>>))
         ELSE IF ~hasCur THEN [ok |-> FALSE, sched |-> sched]
              ELSE LoadItems(Tail(items), TRUE, cur,
                             AddKeywords(sched, cur, <<it.line>>))

Load(sched, items) ==
    LoadItems(items, FALSE, datetime_from_date(1), sched)

LoadAt(sched, items, dt) == LoadItems(items, TRUE, dt, sched)

(***************************************************************************)
(* Bounds and inputs                                                       *)
(***************************************************************************)
\* The configuration's dates are Day0 .. Day0 + NDays - 1
Day0 == Ymd2Ord(2019, 12, 31)

NDays == 2

ConfDates == Day0 .. (Day0 + NDays - 1)

\* entries of the merge list
MaxMerge == 1

\* entries of the insert list
MaxInserts == 2

DatesItem(d) == [dates |-> TRUE, date |-> d, line |-> <<>>]

TextItem(l) == [dates |-> FALSE, date |-> 1, line |-> l]

\* The files on disk
FileContent(name) ==
    CASE name = "init.sch"      -> <<TextItem(<<"I">>)>>
      [] name = "merge.sch"     -> <<DatesItem(Day0), TextItem(<<"K">>),
                                     DatesItem(Day0 + NDays), TextItem(<<"L">>)>>
      [] name = "mergeBad.sch"  -> <<TextItem(<<"X">>), DatesItem(Day0)>>
      [] name = "tpl.sch"       -> <<TextItem(<<"W", "<", "A", ">", "<", "C", ">">>)>>
      [] name = "other.sch"     -> <<TextItem(<<"<", "B", ">", "<", "A", ">", "<", "A", ">">>)>>

MergeFiles == {"merge.sch", "mergeBad.sch"}

TheSubst ==
    << [key |-> <<"A">>, value |-> [isInt |-> FALSE, n |-> 0, s |-> <<"P", "1">>]],
       [key |-> <<"B">>, value |-> [isInt |-> TRUE, n |-> 17, s |-> <<>>]] >>

\* One entry of the insert list: {fileid: {filename, string, substitute,
\* date, days}}, each key present or not
\* (a 'filename' beside a 'string' is never read, and is left out; the
\* entries with a 'filename' are those placed by a 'date' alone)
InsertSpecs ==
    {s \in [fileid : {"tpl.sch"},
            hasFilename : BOOLEAN, filename : {"other.sch"},
            hasString : BOOLEAN, string : {<<"S", "<", "A", ">">>},
            hasSubst : BOOLEAN, substitute : {TheSubst},
            hasDate : BOOLEAN, date : {Day0 + 1},
            hasDays : BOOLEAN, days : {1}] :
        s.hasFilename => (~s.hasString /\ s.hasDate /\ ~s.hasDays)}

NoInsert ==
    [fileid |-> "tpl.sch", hasFilename |-> FALSE, filename |-> "other.sch",
     hasString |-> FALSE, string |-> <<>>, hasSubst |-> FALSE,
     substitute |-> <<>>, hasDate |-> FALSE, date |-> 1,
     hasDays |-> FALSE, days |-> 0]

\* The keys of the configuration other than merge and insert.  startdate and
\* refdate are drawn at the start; init, enddate and dategrid, like the
\* entries of the merge and insert lists, are drawn where the code first
\* reads them, and known says which have been drawn.  A refdate given is
\* the second day; a refdate not given becomes startdate, any of the days.
StartConfigs ==
    {c \in [hasStart : BOOLEAN, startdate : ConfDates,
            hasRef : BOOLEAN, refdate : {Day0 + 1},
            hasEnd : {FALSE}, enddate : {Day0}, endIsDate : {TRUE},
            hasInit : {FALSE}, init : {"init.sch"},
            hasGrid : {FALSE}, dategrid : {"monthly"},
            known : {{}}] :
        /\ (~c.hasStart => c.startdate = Day0)
        /\ (~c.hasRef => c.refdate = Day0 + 1)}

\* enddate: absent, a date, or a value that is no datetime.date
EndChoices ==
    {e \in [hasEnd : BOOLEAN, enddate : ConfDates, endIsDate : BOOLEAN] :
        /\ (~e.hasEnd => (e.enddate = Day0 /\ e.endIsDate))
        /\ (~e.endIsDate => e.enddate = Day0)}

\* dategrid: absent, a supported interval, or one that is not supported
GridChoices ==
    {g \in [hasGrid : BOOLEAN, dategrid : {"monthly", "daily"}] :
        ~g.hasGrid => g.dategrid = "monthly"}

\* A local variable that is not bound yet
Unbound == [kind |-> "unbound", name |-> "", idx |-> 0]

Named(name) == [kind |-> "named", name |-> name, idx |-> 0]

Temp(idx) == [kind |-> "temp", name |-> "", idx |-> idx]

NoDt == [bound |-> FALSE, dt |-> datetime_from_date(1)]

SomeDt(dt) == [bound |-> TRUE, dt |-> dt]

NoPlaced ==
    [valid |-> FALSE, date |-> datetime_from_date(1), kws |-> <<>>,
     opened |-> Unbound]

VARIABLES
    gpc, gstart, gend, ginterval, gdate, gwd, gdates,
    conf, pc, error, schedule, nmerge, ninsert, file, filename, date,
    enddate, tmpfiles, ops, placed

gvars == <<gpc, gstart, gend, ginterval, gdate, gwd, gdates>>

avars == <<conf, pc, error, schedule, nmerge, ninsert, file, filename, date,
           enddate, tmpfiles, ops, placed>>

vars == <<gvars, avars>>

(***************************************************************************)
(* dategrid, step by step                                                  *)
(***************************************************************************)
\* The interval check, then dates = [startdate], date = startdate + 1 day,
\* startdateweekday = startdate.weekday()
GridEnter ==
    /\ gpc = "call"
    /\ IF ginterval \notin supportedintervals
       THEN /\ gpc' = "raised"
            /\ UNCHANGED <<gdate, gwd, gdates>>
       ELSE /\ gpc' = "loop"
            /\ gdates' = <<gstart>>
            /\ gdate' = gstart + 1
            /\ gwd' = Weekday(gstart)
    /\ UNCHANGED <<gstart, gend, ginterval, avars>>

\* One pass of the while loop
GridStep ==
    /\ gpc = "loop"
    /\ GridCond(gdate, gend)
    /\ gdates' = IF GridMatch(ginterval, gdate, gwd)
                 THEN Append(gdates, gdate) ELSE gdates
    /\ gdate' = gdate + 1
    /\ UNCHANGED <<gpc, gstart, gend, ginterval, gwd, avars>>

\* return dates
GridReturn ==
    /\ gpc = "loop"
    /\ ~GridCond(gdate, gend)
    /\ gpc' = "done"
    /\ UNCHANGED <<gstart, gend, ginterval, gdate, gwd, gdates, avars>>

GridIdle ==
    /\ gpc = "idle"
    /\ gstart = 1 /\ gend = 1 /\ ginterval = "monthly"
    /\ gdate = 1 /\ gwd = 0 /\ gdates = <<>>

(***************************************************************************)
(* process_sch_config                                                      *)
(***************************************************************************)
Raise(msg) ==
    /\ pc' = "raised"
    /\ error' = msg

\* Construct without the failure when both startdate and refdate are missing
ConstructNoCheck ==
    /\ pc = "start"
    /\ schedule' = IF conf.hasStart THEN TimeVector(conf.startdate)
                   ELSE IF conf.hasRef THEN TimeVector(conf.refdate)
                   ELSE <<>>
    /\ conf' = IF conf.hasStart /\ ~conf.hasRef
               THEN [conf EXCEPT !.hasRef = TRUE, !.refdate = conf.startdate]
               ELSE conf
    /\ pc' = "init"
    /\ UNCHANGED <<error, nmerge, ninsert, file, filename, date, enddate,
                   tmpfiles, ops, placed, gvars>>

\* The TimeVector is made at startdate, else at refdate, else the call
\* fails; refdate defaults to startdate.
Construct ==
    /\ pc = "start"
    /\ IF conf.hasStart
       THEN /\ schedule' = TimeVector(conf.startdate)
            /\ conf' = IF ~conf.hasRef
                       THEN [conf EXCEPT !.hasRef = TRUE, !.refdate = conf.startdate]
                       ELSE conf
            /\ pc' = "init"
            /\ UNCHANGED error
       ELSE IF conf.hasRef
            THEN /\ schedule' = TimeVector(conf.refdate)
                 /\ pc' = "init"
                 /\ UNCHANGED <<conf, error>>
            ELSE /\ Raise("Exception: No startdate or refdate given")
                 /\ UNCHANGED <<conf, schedule>>
    /\ UNCHANGED <<nmerge, ninsert, file, filename, date, enddate, tmpfiles,
                   ops, placed, gvars>>

\* if 'init' in sunschconf: schedule.load(init, date=combine(startdate))
InitLoad(hasInit) ==
    /\ pc = "init"
    /\ conf' = [conf EXCEPT !.hasInit = hasInit, !.known = @ \cup {"init"}]
    /\ IF ~hasInit
       THEN /\ pc' = "merge"
            /\ UNCHANGED <<error, schedule, ops>>
       ELSE IF ~conf.hasStart
            THEN /\ Raise("KeyError: startdate")
                 /\ UNCHANGED <<schedule, ops>>
            ELSE /\ schedule' = LoadAt(schedule, FileContent(conf.init),
                                       datetime_from_date(conf.startdate)).sched
                 /\ ops' = ops \cup {"open", "load"}
                 /\ pc' = "merge"
                 /\ UNCHANGED error
    /\ UNCHANGED <<nmerge, ninsert, file, filename, date, enddate,
                   tmpfiles, placed, gvars>>

\* One entry of the merge list: schedule.load(file); a ValueError is raised
\* again as an Exception that names the file.
MergeOne(f) ==
    /\ pc = "merge"
    /\ nmerge < MaxMerge
    /\ nmerge' = nmerge + 1
    /\ ops' = ops \cup {"open", "load"}
    /\ LET r == Load(schedule, FileContent(f)) IN
       IF r.ok
       THEN /\ schedule' = r.sched
            /\ UNCHANGED <<pc, error>>
       ELSE /\ Raise("Exception: Error in file")
            /\ schedule' = r.sched
    /\ UNCHANGED <<conf, ninsert, file, filename, date, enddate, tmpfiles,
                   placed, gvars>>

\* The merge list is exhausted (or there is none)
MergeDone ==
    /\ pc = "merge"
    /\ pc' = "insert"
    /\ UNCHANGED <<conf, error, schedule, nmerge, ninsert, file, filename,
                   date, enddate, tmpfiles, ops, placed, gvars>>

\* The text lines of a file on disk or of a temporary file
ReadLines(fn, tmps) ==
    IF fn.kind = "temp" THEN tmps[fn.idx].lines
    ELSE LET items == FileContent(fn.name)
         IN  [i \in 1 .. Len(items) |-> items[i].line]

\* The items a load parses out of a file
ReadItems(fn, tmps) ==
    IF fn.kind = "temp"
    THEN [i \in 1 .. Len(tmps[fn.idx].lines) |-> TextItem(tmps[fn.idx].lines[i])]
    ELSE FileContent(fn.name)

\* if 'string' not in filedata: filename = fileid, or the 'filename' given;
\* with a string, filename keeps what it held
ResolveFilename(spec, oldfilename) ==
    IF ~spec.hasString
    THEN (IF ~spec.hasFilename THEN Named(spec.fileid) ELSE Named(spec.filename))
    ELSE oldfilename

\* Whether the template is read through the variable filename
ReadsTemplate(spec) == spec.hasSubst

\* ResolveDate with 'days' read only when there is no 'date' (an elif)
ResolveDateElif(spec, olddate, c) ==
    IF spec.hasDate
    THEN [raised |-> FALSE, date |-> SomeDt(datetime_from_date(spec.date))]
    ELSE IF spec.hasDays
         THEN (IF ~c.hasRef
               THEN [raised |-> TRUE, date |-> olddate]
               ELSE [raised |-> FALSE,
                     date |-> SomeDt(AddDays(datetime_from_date(c.refdate),
                                             spec.days))])
         ELSE [raised |-> FALSE, date |-> olddate]

\* The date of one insertion: 'date' if given, then 'days' (refdate + days)
\* if given; with neither, date keeps what it held
ResolveDate(spec, olddate, c) ==
    LET d1 == IF spec.hasDate
              THEN SomeDt(datetime_from_date(spec.date)) ELSE olddate
    IN  IF spec.hasDays
        THEN (IF ~c.hasRef
              THEN [raised |-> TRUE, date |-> d1]
              ELSE [raised |-> FALSE,
                    date |-> SomeDt(AddDays(datetime_from_date(c.refdate),
                                            spec.days))])
        ELSE [raised |-> FALSE, date |-> d1]

\* One entry of the insert list
InsertOne(spec) ==
    /\ pc = "insert"
    /\ ninsert < MaxInserts
    /\ ninsert' = ninsert + 1
    /\ file' = spec
    /\ LET fn1    == ResolveFilename(spec, filename)
           idx    == Len(tmpfiles) + 1
           \* resultfile = tempfile.NamedTemporaryFile(delete=False)
           tmps1  == Append(tmpfiles, [lines |-> <<>>, closed |-> FALSE,
                                       exists |-> TRUE])
       IN
       IF ReadsTemplate(spec) /\ fn1.kind = "unbound"
       THEN \* open(filename): filename is not bound
            /\ Raise("NameError: filename")
            /\ tmpfiles' = tmps1
            /\ filename' = fn1
            /\ placed' = NoPlaced
            /\ UNCHANGED <<schedule, date, ops>>
       ELSE
       LET lines  == IF ReadsTemplate(spec)
                     THEN SubstLines(ReadLines(fn1, tmps1), spec.substitute)
                     ELSE <<>>
           tmps2  == IF ReadsTemplate(spec)
                     THEN [tmps1 EXCEPT ![idx] = [lines |-> lines,
                                                  closed |-> TRUE,
                                                  exists |-> TRUE]]
                     ELSE tmps1
           fn2    == IF ReadsTemplate(spec) THEN Temp(idx) ELSE fn1
           opened == IF ReadsTemplate(spec) THEN fn1 ELSE Unbound
           ops1   == IF ReadsTemplate(spec) THEN ops \cup {"open"} ELSE ops
           dr     == ResolveDate(spec, date, conf)
       IN
       /\ tmpfiles' = tmps2
       /\ filename' = fn2
       /\ date' = dr.date
       /\ IF dr.raised
          THEN /\ Raise("Exception: ERROR: When using days in insert statements, you must provide refdate")
               /\ ops' = ops1
               /\ placed' = NoPlaced
               /\ UNCHANGED schedule
          ELSE IF ~dr.date.bound
          THEN /\ Raise("NameError: date")
               /\ ops' = ops1
               /\ placed' = NoPlaced
               /\ UNCHANGED schedule
          ELSE IF ~spec.hasString
          THEN \* schedule.load(filename, date=date)
               /\ schedule' = LoadAt(schedule, ReadItems(fn2, tmps2),
                                     dr.date.dt).sched
               /\ ops' = ops1 \cup {"load"}
               /\ placed' = [valid |-> TRUE, date |-> dr.date.dt,
                             kws |-> ReadLines(fn2, tmps2), opened |-> opened]
               /\ UNCHANGED <<pc, error>>
          ELSE \* schedule.add_keywords(datetime_from_date(date), [string])
               /\ schedule' = AddKeywords(schedule,
                                  datetime_from_date(DatePart(dr.date.dt)),
                                  <<spec.string>>)
               /\ ops' = ops1 \cup {"add_keywords"}
               /\ placed' = [valid |-> TRUE,
                             date |-> datetime_from_date(DatePart(dr.date.dt)),
                             kws |-> <<spec.string>>, opened |-> opened]
               /\ UNCHANGED <<pc, error>>
    /\ UNCHANGED <<conf, nmerge, enddate, gvars>>

\* The insert list is exhausted (or there is none)
InsertDone ==
    /\ pc = "insert"
    /\ pc' = "enddate"
    /\ UNCHANGED <<conf, error, schedule, nmerge, ninsert, file, filename,
                   date, enddate, tmpfiles, ops, placed, gvars>>

\* The end date: the last date of the schedule, or the enddate given, which
\* must be a datetime.date
EndDate(e) ==
    /\ pc = "enddate"
    /\ conf' = [conf EXCEPT !.hasEnd = e.hasEnd, !.enddate = e.enddate,
                            !.endIsDate = e.endIsDate,
                            !.known = @ \cup {"enddate"}]
    /\ IF ~e.hasEnd
       THEN /\ enddate' = DatePart(Dates(schedule)[Len(schedule)])
            /\ pc' = "clip"
            /\ UNCHANGED error
       ELSE /\ enddate' = e.enddate
            /\ IF ~e.endIsDate
               THEN Raise("Exception: ERROR: end-date not in ISO-8601 format, must be YYYY-MM-DD")
               ELSE pc' = "clip" /\ UNCHANGED error
    /\ UNCHANGED <<schedule, nmerge, ninsert, file, filename, date,
                   tmpfiles, ops, placed, gvars>>

\* for date in schedule.dates: if date.date() > enddate: schedule.delete(date)
RECURSIVE ClipLoop(_, _, _)
ClipLoop(dates, end, sched) ==
    IF dates = <<>> THEN sched
    ELSE ClipLoop(Tail(dates), end,
                  IF DatePart(Head(dates)) > end
                  THEN Delete(sched, Head(dates)) ELSE sched)

Clip ==
    /\ pc = "clip"
    /\ schedule' = ClipLoop(Dates(schedule), enddate, schedule)
    /\ ops' = IF schedule' # schedule THEN ops \cup {"delete"} ELSE ops
    /\ date' = IF schedule = <<>> THEN date
               ELSE SomeDt(Dates(schedule)[Len(schedule)])
    /\ pc' = "guarantee"
    /\ UNCHANGED <<conf, error, nmerge, ninsert, file, filename, enddate,
                   tmpfiles, placed, gvars>>

\* Guarantee without the marker at the end date
GuaranteeSkipped ==
    /\ pc = "guarantee"
    /\ pc' = "grid"
    /\ UNCHANGED <<conf, error, schedule, nmerge, ninsert, file, filename,
                   date, enddate, tmpfiles, ops, placed, gvars>>

\* if enddate not in [x.date() for x in schedule.dates]:
\*     schedule.add_keywords(datetime_from_date(enddate), [''])
Guarantee ==
    /\ pc = "guarantee"
    /\ IF enddate \notin {DatePart(Dates(schedule)[i]) : i \in 1 .. Len(schedule)}
       THEN /\ schedule' = AddKeywords(schedule, datetime_from_date(enddate),
                                       << <<>> >>)
            /\ ops' = ops \cup {"add_keywords"}
       ELSE UNCHANGED <<schedule, ops>>
    /\ pc' = "grid"
    /\ UNCHANGED <<conf, error, nmerge, ninsert, file, filename, date,
                   enddate, tmpfiles, placed, gvars>>

\* for date in dates: schedule.add_keywords(datetime_from_date(date), [""])
RECURSIVE AddGrid(_, _)
AddGrid(dates, sched) ==
    IF dates = <<>> THEN sched
    ELSE AddGrid(Tail(dates),
                 AddKeywords(sched, datetime_from_date(Head(dates)), << <<>> >>))

\* if 'dategrid' in sunschconf:
\*     dates = dategrid(sunschconf['startdate'], enddate, sunschconf['dategrid'])
\*     for date in dates: ...
\* return schedule
DateGridPass(g) ==
    /\ pc = "grid"
    /\ conf' = [conf EXCEPT !.hasGrid = g.hasGrid, !.dategrid = g.dategrid,
                            !.known = @ \cup {"dategrid"}]
    /\ IF ~g.hasGrid
       THEN /\ pc' = "returned"
            /\ UNCHANGED <<error, schedule, ops>>
       ELSE IF ~conf.hasStart
            THEN /\ Raise("KeyError: startdate")
                 /\ UNCHANGED <<schedule, ops>>
            ELSE LET r == dategrid(conf.startdate, enddate, g.dategrid) IN
                 IF r.raised
                 THEN /\ Raise("Exception: Unsupported dategrid interval")
                      /\ UNCHANGED <<schedule, ops>>
                 ELSE /\ schedule' = AddGrid(r.dates, schedule)
                      /\ ops' = ops \cup {"add_keywords"}
                      /\ pc' = "returned"
                      /\ UNCHANGED error
    /\ UNCHANGED <<nmerge, ninsert, file, filename, date, enddate,
                   tmpfiles, placed, gvars>>

Init ==
    /\ conf \in StartConfigs
    /\ pc = "start"
    /\ error = ""
    /\ schedule = <<>>
    /\ nmerge = 0
    /\ ninsert = 0
    /\ file = NoInsert
    /\ filename = Unbound
    /\ date = NoDt
    /\ enddate = 1
    /\ tmpfiles = <<>>
    /\ ops = {}
    /\ placed = NoPlaced
    /\ GridIdle

Next ==
    \/ Construct
    \/ \E hasInit \in BOOLEAN : InitLoad(hasInit)
    \/ \E f \in MergeFiles : MergeOne(f)
    \/ MergeDone
    \/ \E spec \in InsertSpecs : InsertOne(spec)
    \/ InsertDone
    \/ \E e \in EndChoices : EndDate(e)
    \/ Clip
    \/ Guarantee
    \/ \E g \in GridChoices : DateGridPass(g)

Spec == Init /\ [][Next]_vars

(***************************************************************************)
(* dategrid alone, on inputs of its own                                    *)
(***************************************************************************)
GridBase == Ymd2Ord(2019, 12, 25)

\* number of start dates tried, from GridBase on
GridStarts == 24

\* enddate ranges over startdate - GridBack .. startdate + GridSpan
GridBack == 2

GridSpan == 78

GridIntervals == supportedintervals \cup {"daily"}

AssemblerIdle ==
    /\ conf = CHOOSE c \in StartConfigs : TRUE
    /\ pc = "idle"
    /\ error = ""
    /\ schedule = <<>>
    /\ nmerge = 0
    /\ ninsert = 0
    /\ file = NoInsert
    /\ filename = Unbound
    /\ date = NoDt
    /\ enddate = 1
    /\ tmpfiles = <<>>
    /\ ops = {}
    /\ placed = NoPlaced

GridInit ==
    /\ gpc = "call"
    /\ gstart \in GridBase .. (GridBase + GridStarts - 1)
    /\ gend \in (gstart - GridBack) .. (gstart + GridSpan)
    /\ ginterval \in GridIntervals
    /\ gdate = 1 /\ gwd = 0 /\ gdates = <<>>
    /\ AssemblerIdle

GridNext ==
    \/ GridEnter
    \/ GridStep
    \/ GridReturn

SpecGrid == GridInit /\ [][GridNext]_vars

(***************************************************************************)
(* Properties                                                              *)
(***************************************************************************)
\* The dates of the blocks of the schedule
BlockDates == {DatePart(schedule[i].date) : i \in 1 .. Len(schedule)}

\* The end date has been resolved
EndResolved == pc \in {"clip", "guarantee", "grid", "returned"}

\* The step-by-step loop and the loop run to its end give the same dates
GridLoopAgrees ==
    (gpc = "done" /\ gend - gstart <= 40)
        => gdates = dategrid(gstart, gend, ginterval).dates

\* C1: when process_sch_config has returned, no block of the schedule has a
\* date later than the resolved end date.
C1_NothingAfterEndDate ==
    pc = "returned" => \A d \in BlockDates : d <= enddate

\* The same, for the calls in which the date-grid pass does not run with a
\* startdate later than the end date
C1_ExceptLateStartGrid ==
    (pc = "returned" /\ ~(conf.hasGrid /\ conf.startdate > enddate))
        => \A d \in BlockDates : d <= enddate

\* C2: the resolved end date is the enddate configured, or else the latest
\* date of the schedule after the merge and insert passes, and when
\* process_sch_config has returned the schedule has a block at exactly that
\* date.
C2_EndDatePresent ==
    /\ (EndResolved /\ conf.hasEnd) => enddate = conf.enddate
    /\ (pc = "clip" /\ ~conf.hasEnd)
           => (enddate \in BlockDates /\ \A d \in BlockDates : d <= enddate)
    /\ pc = "returned" => enddate \in BlockDates

\* A call has returned with an end date that no input gave a block: it is
\* there as the empty marker alone.
C2_Witness ==
    /\ pc = "returned"
    /\ conf.hasEnd
    /\ ninsert > 0
    /\ \E i \in 1 .. Len(schedule) :
          /\ DatePart(schedule[i].date) = enddate
          /\ schedule[i].kws = << <<>> >>

\* C3: with neither startdate nor refdate, process_sch_config raises, and it
\* has then made no load, add_keywords, delete or open and no temporary file.
C3_NoDateBasisFails ==
    (~conf.hasStart /\ ~conf.hasRef)
        => /\ pc \in {"start", "raised"}
           /\ pc = "raised" => error = "Exception: No startdate or refdate given"
           /\ ops = {}
           /\ schedule = <<>>
           /\ tmpfiles = <<>>
           /\ conf.known = {}

C3_Witness ==
    /\ ~conf.hasStart
    /\ ~conf.hasRef
    /\ pc = "raised"

\* The list is in non-decreasing order, starts with startdate and lies in
\* startdate .. enddate
GridWellFormed ==
    /\ Len(gdates) >= 1
    /\ gdates[1] = gstart
    /\ \A i \in 1 .. Len(gdates) - 1 : gdates[i] <= gdates[i + 1]
    /\ \A i \in 1 .. Len(gdates) : gstart <= gdates[i] /\ gdates[i] <= gend

\* C4, as claimed: for every startdate, enddate and supported interval the
\* list dategrid returns is in non-decreasing order, starts with startdate
\* and lies within startdate .. enddate.
C4_GridWellFormedAlways == gpc = "done" => GridWellFormed

\* C4, amended: that holds when startdate <= enddate; with enddate before
\* startdate the list is startdate alone, which lies after enddate.
C4_GridWellFormedInOrder ==
    /\ (gpc = "done" /\ gstart <= gend) => GridWellFormed
    /\ (gpc = "done" /\ gstart > gend) => gdates = <<gstart>>

C4_Witness ==
    /\ gpc = "done"
    /\ gstart <= gend
    /\ Len(gdates) >= 3
    /\ gdates[Len(gdates)] = gend

\* The rule of an interval
GridRule(interval, d) ==
    CASE interval = "monthly"   -> DayOf(d) = 1
      [] interval = "bimonthly" -> DayOf(d) = 1 /\ MonthOf(d) \in {1, 3, 5, 7, 9, 11}
      [] interval = "yearly"    -> DayOf(d) = 1 /\ MonthOf(d) = 1
      [] interval = "weekly"    -> (d - gstart) % 7 = 0
      [] interval = "biweekly"  -> (d - gstart) % 7 = 0 /\ IsoWeek(d) % 2 = 1

\* C5: for startdate <= enddate, dategrid returns startdate and then, in
\* ascending order and once each, exactly the days after startdate and up
\* to enddate that match the rule of the interval.  2020-01-15 .. 2020-04-01
\* monthly gives 2020-01-15, 2020-02-01, 2020-03-01, 2020-04-01, and
\* 2019-12-25 .. 2020-03-01 yearly gives 2019-12-25, 2020-01-01.
C5_GridExact ==
    /\ (gpc = "done" /\ gstart <= gend)
          => /\ Len(gdates) >= 1
             /\ gdates[1] = gstart
             /\ \A i \in 1 .. Len(gdates) - 1 : gdates[i] < gdates[i + 1]
             /\ {gdates[i] : i \in 2 .. Len(gdates)}
                    = {d \in (gstart + 1) .. gend : GridRule(ginterval, d)}
    /\ (gpc = "done" /\ gstart = 737439 /\ gend = 737516 /\ ginterval = "monthly")
          => gdates = <<737439, 737456, 737485, 737516>>
    /\ (gpc = "done" /\ gstart = 737418 /\ gend = 737485 /\ ginterval = "yearly")
          => gdates = <<737418, 737425>>

\* The call dategrid(2020-01-15, 2020-04-01, "monthly") has returned
C5_Witness ==
    /\ gpc = "done"
    /\ gstart = Ymd2Ord(2020, 1, 15)
    /\ gend = Ymd2Ord(2020, 4, 1)
    /\ ginterval = "monthly"
    /\ Len(gdates) = 4

\* The content of an insertion's own source: the inline string, or the text
\* of the file it names
OwnLines(spec) ==
    IF spec.hasString THEN <<spec.string>>
    ELSE LET items == FileContent(IF spec.hasFilename THEN spec.filename
                                  ELSE spec.fileid)
         IN  [i \in 1 .. Len(items) |-> items[i].line]

\* A text with every token <key> of a mapping replaced by its value
RECURSIVE ReplaceTokens(_, _)
ReplaceTokens(s, mapping) ==
    IF s = <<>> THEN <<>>
    ELSE LET hits == {i \in 1 .. Len(mapping) : IsPrefix(Token(mapping[i].key), s)}
         IN  IF hits = {}
             THEN <<Head(s)>> \o ReplaceTokens(Tail(s), mapping)
             ELSE LET i == CHOOSE i \in hits : TRUE
                  IN  StrOf(mapping[i].value)
                      \o ReplaceTokens(SubSeq(s, Len(Token(mapping[i].key)) + 1,
                                              Len(s)), mapping)

ExpectedLines(spec) ==
    LET own == OwnLines(spec)
    IN  [i \in 1 .. Len(own) |-> ReplaceTokens(own[i], spec.substitute)]

\* C6: what an insertion with a substitution mapping puts into the schedule
\* is its own content (the text of its file, or its inline string) with
\* every <key> of the mapping replaced by the value and every other token
\* left as it is.
C6_SubstitutedContentPlaced ==
    (placed.valid /\ file.hasSubst) => placed.kws = ExpectedLines(file)

\* The same for the insertions that take their content from a file, with
\* the texts the two template files give
C6_FileContentSubstituted ==
    (placed.valid /\ file.hasSubst /\ ~file.hasString)
        => /\ placed.kws = ExpectedLines(file)
           /\ placed.kws = IF file.hasFilename
                           THEN << <<"1", "7", "P", "1", "P", "1">> >>
                           ELSE << <<"W", "P", "1", "<", "C", ">">> >>

\* C7: no temporary file that process_sch_config has made exists once the
\* insertion that made it is over.
C7_TempFilesDeleted ==
    \A i \in 1 .. Len(tmpfiles) : ~tmpfiles[i].exists

\* C8, as claimed: an insertion is placed at its date if it has one, and at
\* refdate + days only otherwise.
C8_DateWins ==
    placed.valid
        => /\ file.hasDate => placed.date = datetime_from_date(file.date)
           /\ (~file.hasDate /\ file.hasDays)
                 => placed.date = AddDays(datetime_from_date(conf.refdate), file.days)

\* C8, amended: an insertion is placed at refdate + days if it has days, and
\* at its date only if it has a date and no days.
C8_DaysWins ==
    placed.valid
        => /\ file.hasDays
                 => placed.date = AddDays(datetime_from_date(conf.refdate), file.days)
           /\ (file.hasDate /\ ~file.hasDays)
                 => placed.date = datetime_from_date(file.date)

\* An insertion with both date and days has been placed, away from its date
C8_Witness ==
    /\ placed.valid
    /\ file.hasDate
    /\ file.hasDays
    /\ placed.date # datetime_from_date(file.date)
    /\ \E i \in 1 .. Len(schedule) :
          /\ schedule[i].date = placed.date
          /\ schedule[i].kws # <<>>

\* C9: with refdate and no startdate, process_sch_config does not fail for
\* want of startdate.
C9_RefdateSuffices ==
    (conf.hasRef /\ ~conf.hasStart)
        => ~(pc = "raised" /\ error = "KeyError: startdate")

\* C10: an insertion with neither date nor days is not placed at a date left
\* by an earlier insertion, and one with a string and a substitution mapping
\* does not read a file named by an earlier insertion.
C10_NoLeftoverState ==
    /\ (placed.valid /\ ~file.hasDate /\ ~file.hasDays) => FALSE
    /\ (file.hasString /\ file.hasSubst) => placed.opened.kind = "unbound"

\* The two halves of C10, apart
C10_NoLeftoverDate == ~(placed.valid /\ ~file.hasDate /\ ~file.hasDays)

C10_NoLeftoverFile ==
    (file.hasString /\ file.hasSubst) => placed.opened.kind = "unbound"

====
